---- MODULE Spec2Model ----
(***************************************************************************)
(* The <game-details> component of bitballs                                *)
(* (src/public/components/game/details/details.js): the view model that    *)
(* owns the stat being entered (the candidate), the YouTube player it is   *)
(* synchronised with, the polling timer that follows the player, and the   *)
(* save / destroy requests of the Stat model that are in flight.           *)
(*                                                                         *)
(* Times are whole seconds.  Every handler of the component is one action; *)
(* the player, the user and the server are the environment.                *)
(***************************************************************************)
EXTENDS Integers, Sequences, FiniteSets, TLC

(***************************************************************************)
(* Bounds of the model.                                                    *)
(***************************************************************************)
\* Length of the video, in seconds: the player's position stays in 0..VideoLength.
VideoLength == 2
\* A nudge is applied only while the candidate's time stays within
\* -MaxNudge .. VideoLength + MaxNudge.
MaxNudge == 10
\* Number of players on the two teams.
NumPlayers == 2
\* Number of candidates (new Stat objects) created in one behaviour.
MaxCandidates == 2
\* Number of save requests in flight at once.
MaxSaves == 1
\* Number of stats the server creates in one behaviour.
MaxCreated == 1
\* Number of destroy requests in flight at once for one stat.
MaxDestroys == 1
\* Number of polling timers pending at once.
MaxTimers == 2

(***************************************************************************)
(* Program constants.                                                      *)
(***************************************************************************)
\* YT.PlayerState.PLAYING and YT.PlayerState.PAUSED, the values of ev.data.
PLAYING == 1
PAUSED == 2
\* The tolerance of the "{stat} time" handler.
SeekTolerance == 2
\* gotoTimeMinus5 seeks to this many seconds before the given time.
MinusSeconds == 5
\* The buttons of the stat menu: minusTime(10), minusTime(2), addTime(2), addTime(10).
SmallNudge == 2
LargeNudge == 10
\* The number of player slots of a team: player1Id .. player4Id.
TeamSize == 4

Players == 1..NumPlayers
Deltas == {SmallNudge, LargeNudge}
PlayerStates == {PLAYING, PAUSED}
Sessions == {"none", "user", "admin"}
TimerIds == 1..MaxTimers
\* The ids of the stats: the one the game is loaded with and those created.
StatIds == 1..(1 + MaxCreated)

VARIABLES
    session,        \* this.attr("session"): "none" (no session), "user", "admin"
    stat,           \* this.attr("stat"): the candidate, NoStat when the attribute is absent
    nextCid,        \* identity of the next object made by new Stat(...)
    stats,          \* game.attr("stats"): the committed stats
    nextId,         \* id the server gives to the next created stat
    saving,         \* stat.save(...) requests in flight, each with the data it was sent with
    destroying,     \* stat.destroy() requests in flight, per stat id
    playerTime,     \* youtubePlayer.getCurrentTime()
    ytPlaying,      \* whether the player is actually playing
    ytDuration,     \* youtubePlayer.getDuration(): 0 until the player knows it
    ready,          \* whether onPlayerReady has run
    durationTimer,  \* whether setTimeout(getDuration, 100) is pending
    duration,       \* scope.attr("duration"): 0 while undefined
    playing,        \* scope.attr("playing")
    time,           \* viewModel.attr("time"): -1 while undefined
    timers,         \* the pending setTimeout(timeUpdate, 100) timers
    timeUpdate,     \* this.timeUpdate: the handle last stored, 0 while undefined
    removed,        \* whether the component's "removed" event has run
    homeTeam,       \* game.attr("homeTeam"): its player1Id .. player4Id
    awayTeam,       \* game.attr("awayTeam"): its player1Id .. player4Id
    playerMap,      \* the value last read from playerIdToHomeOrAwayMap
    finalScore,     \* the value last read from finalScore
    currentScore,   \* the value last read from currentScore
    ev              \* the handler that ran last and the calls it made

vars == <<session, stat, nextCid, stats, nextId, saving, destroying, playerTime,
          ytPlaying, ytDuration, ready, durationTimer, duration, playing, time,
          timers, timeUpdate, removed, homeTeam, awayTeam, playerMap, finalScore,
          currentScore, ev>>

\* The variables of the view model's editing session and of the persistence layer.
editVars == <<stat, nextCid, stats, nextId, saving, destroying>>
\* The variables of the player and of the clock that follows it.
clockVars == <<playerTime, ytPlaying, ytDuration, ready, durationTimer, duration,
               playing, time, timers, timeUpdate>>

\* The variables of the teams and of the values read from the score getters.
scoreVars == <<homeTeam, awayTeam, playerMap, finalScore, currentScore>>

NoStat == [cid |-> 0, playerId |-> 0, time |-> 0]

\* this.attr("stat") is truthy.
HasStat == stat.cid # 0

\* !this.attr("session") || !this.attr("session").isAdmin() is false.
IsAdmin == session = "admin"

Abs(x) == IF x < 0 THEN -x ELSE x
Min(a, b) == IF a < b THEN a ELSE b
Max(a, b) == IF a > b THEN a ELSE b

\* The record of a handler run: its name, its argument, the answer of
\* window.confirm, the calls it made to the player, the Stat model and the
\* console, and the targets it passed to seekTo.
Event(op, arg, confirm, calls, seeks) ==
    [op |-> op, arg |-> arg, confirm |-> confirm, calls |-> calls, seeks |-> seeks]

\* The position the player reports after seekTo(target, true).
SeekTo(target) == Max(0, Min(target, VideoLength))

\* The "{stat} time" handler without its tolerance.
StatTimeSeeks_NoTolerance(t, pt) ==
    IF t >= 0 /\ t # pt THEN {t} ELSE {}

\* The "{stat} time" handler, run when the candidate's time becomes t while the
\* player reports pt: the targets it seeks to.
StatTimeSeeks(t, pt) ==
    IF t >= 0 /\ Abs(t - pt) > SeekTolerance THEN {t} ELSE {}

\* The player's position after the seeks of a handler.
AfterSeeks(seeks, pt) ==
    IF seeks = {} THEN pt ELSE SeekTo(CHOOSE t \in seeks : TRUE)

\* The handle setTimeout returns: an id no pending timer has.  (The stored
\* handle is overwritten by every setTimeout of timeUpdate, so an id that is
\* free again never meets a stale handle.)
FreshTimer(pending) ==
    CHOOSE i \in TimerIds : i \notin pending /\ \A j \in 1..(i - 1) : j \in pending

\* A getter that was not read yet.
NotRead == <<>>

Init ==
    /\ session \in Sessions
    /\ stat = NoStat
    /\ nextCid = 1
    /\ stats = {[id |-> 1, playerId |-> 1, time |-> 1]}
    /\ nextId = 2
    /\ saving = <<>>
    /\ destroying = [i \in StatIds |-> 0]
    /\ playerTime = 0
    /\ ytPlaying = FALSE
    /\ ytDuration = 0
    /\ ready = FALSE
    /\ durationTimer = FALSE
    /\ duration = 0
    /\ playing = FALSE
    /\ time = -1
    /\ timers = {}
    /\ timeUpdate = 0
    /\ removed = FALSE
    /\ homeTeam = [i \in 1..TeamSize |-> i]
    /\ awayTeam = [i \in 1..TeamSize |-> TeamSize + i]
    /\ playerMap = NotRead
    /\ finalScore = NotRead
    /\ currentScore = NotRead
    /\ ev = Event("inserted", 0, FALSE, {}, {})

(***************************************************************************)
(* The stat menu: showStatMenuFor, createStat and its two callbacks,       *)
(* removeStat, addTime, minusTime.                                         *)
(***************************************************************************)
\* showStatMenuFor without its session check.
ShowStatMenuFor_NoGate(p) ==
    /\ ~removed
    /\ nextCid <= MaxCandidates
    /\ ytPlaying' = FALSE
    /\ stat' = [cid |-> nextCid, playerId |-> p, time |-> playerTime]
    /\ nextCid' = nextCid + 1
    /\ ev' = Event("showStatMenuFor", p, FALSE, {"getCurrentTime", "pauseVideo"}, {})
    /\ UNCHANGED <<stats, nextId, saving, destroying, playerTime, ytDuration,
                   ready, durationTimer, duration, playing, time, timers,
                   timeUpdate, session, removed>>
    /\ UNCHANGED scoreVars

\* showStatMenuFor(player, element, event)
ShowStatMenuFor(p) ==
    /\ ~removed
    /\ IF ~IsAdmin
       THEN /\ ev' = Event("showStatMenuFor", p, FALSE, {}, {})
            /\ UNCHANGED <<editVars, clockVars>>
       ELSE /\ nextCid <= MaxCandidates
            /\ ytPlaying' = FALSE
            /\ stat' = [cid |-> nextCid, playerId |-> p, time |-> playerTime]
            /\ nextCid' = nextCid + 1
            /\ ev' = Event("showStatMenuFor", p, FALSE, {"getCurrentTime", "pauseVideo"}, {})
            /\ UNCHANGED <<stats, nextId, saving, destroying, playerTime, ytDuration,
                           ready, durationTimer, duration, playing, time, timers,
                           timeUpdate>>
    /\ UNCHANGED <<session, removed>>
    /\ UNCHANGED scoreVars

\* createStat that adds the candidate to the game's stats before the save answers.
CreateStat_Optimistic ==
    /\ ~removed
    /\ HasStat
    /\ Len(saving) < MaxSaves
    /\ (nextId - 2) + Len(saving) < MaxCreated
    /\ saving' = Append(saving, stat)
    /\ stats' = stats \cup {[id |-> 0, playerId |-> stat.playerId, time |-> stat.time]}
    /\ ev' = Event("createStat", stat.cid, FALSE, {"save"}, {})
    /\ UNCHANGED <<session, stat, nextCid, nextId, destroying, clockVars, removed>>
    /\ UNCHANGED scoreVars

\* createStat(ev): stat.save(success, error) sends the candidate as it is now.
CreateStat ==
    /\ ~removed
    /\ HasStat
    /\ Len(saving) < MaxSaves
    /\ (nextId - 2) + Len(saving) < MaxCreated
    /\ saving' = Append(saving, stat)
    /\ ev' = Event("createStat", stat.cid, FALSE, {"save"}, {})
    /\ UNCHANGED <<session, stat, nextCid, stats, nextId, destroying, clockVars, removed>>
    /\ UNCHANGED scoreVars

\* The sequence s without its i-th element.
RemoveAt(s, i) == SubSeq(s, 1, i - 1) \o SubSeq(s, i + 1, Len(s))

\* The committed stats once the server has created the stat sent in request req.
LogInsert(log, req, id) ==
    log \cup {[id |-> id, playerId |-> req.playerId, time |-> req.time]}

\* The committed stats once the server has destroyed the stat with this id.
LogRemove(log, id) == {s \in log : s.id # id}

\* The save succeeds: the success callback of createStat runs.
SaveSucceeded(i) ==
    /\ i \in 1..Len(saving)
    /\ stats' = LogInsert(stats, saving[i], nextId)
    /\ nextId' = nextId + 1
    /\ saving' = RemoveAt(saving, i)
    /\ stat' = NoStat
    /\ ev' = Event("saveSuccess", saving[i].cid, FALSE, {}, {})
    /\ UNCHANGED <<session, nextCid, destroying, clockVars, removed>>
    /\ UNCHANGED scoreVars

\* The error callback without its self.removeAttr("stat").
SaveFailed_KeepsStat(i) ==
    /\ i \in 1..Len(saving)
    /\ saving' = RemoveAt(saving, i)
    /\ ev' = Event("saveError", saving[i].cid, FALSE, {"console.log"}, {})
    /\ UNCHANGED <<session, stat, nextCid, stats, nextId, destroying, clockVars, removed>>
    /\ UNCHANGED scoreVars

\* The save fails: the error callback of createStat runs.
SaveFailed(i) ==
    /\ i \in 1..Len(saving)
    /\ saving' = RemoveAt(saving, i)
    /\ stat' = NoStat
    /\ ev' = Event("saveError", saving[i].cid, FALSE, {"console.log"}, {})
    /\ UNCHANGED <<session, nextCid, stats, nextId, destroying, clockVars, removed>>
    /\ UNCHANGED scoreVars

\* removeStat that destroys the stat instead of only dropping the attribute.
RemoveStat_Destroys ==
    /\ ~removed
    /\ stat' = NoStat
    /\ stats' = {}
    /\ ev' = Event("removeStat", stat.cid, FALSE, {"destroy"}, {})
    /\ UNCHANGED <<session, nextCid, nextId, saving, destroying, clockVars, removed>>
    /\ UNCHANGED scoreVars

\* removeStat()
RemoveStat ==
    /\ ~removed
    /\ stat' = NoStat
    /\ ev' = Event("removeStat", stat.cid, FALSE, {}, {})
    /\ UNCHANGED <<session, nextCid, stats, nextId, saving, destroying, clockVars, removed>>
    /\ UNCHANGED scoreVars

\* this.attr("stat.time", t), and the "{stat} time" handler it triggers.
SetStatTime(op, arg, t) ==
    LET seeks == StatTimeSeeks(t, playerTime) IN
    /\ stat' = [stat EXCEPT !.time = t]
    /\ playerTime' = AfterSeeks(seeks, playerTime)
    /\ ev' = Event(op, arg, FALSE,
                   {"getCurrentTime"} \cup (IF seeks = {} THEN {} ELSE {"seekTo"}), seeks)
    /\ UNCHANGED <<session, nextCid, stats, nextId, saving, destroying, ytPlaying,
                   ytDuration, ready, durationTimer, duration, playing, time, timers,
                   timeUpdate, removed>>

\* The candidate's time stays within the range the model follows.
InRange(t) == -MaxNudge <= t /\ t <= VideoLength + MaxNudge

\* addTime that keeps the time at or above 0.
AddTime_Clamped(d) ==
    /\ ~removed
    /\ HasStat
    /\ InRange(stat.time + d)
    /\ SetStatTime("addTime", d, Max(0, stat.time + d))
    /\ UNCHANGED scoreVars

\* addTime(time)
AddTime(d) ==
    /\ ~removed
    /\ HasStat
    /\ InRange(stat.time + d)
    /\ SetStatTime("addTime", d, stat.time + d)
    /\ UNCHANGED scoreVars

\* minusTime(time)
MinusTime(d) ==
    /\ ~removed
    /\ HasStat
    /\ InRange(stat.time - d)
    /\ SetStatTime("minusTime", d, stat.time - d)
    /\ UNCHANGED scoreVars

(***************************************************************************)
(* gotoTimeMinus5 and deleteStat, on a committed stat.                     *)
(***************************************************************************)
\* gotoTimeMinus5(time, event), with the time of a committed stat.
GotoTimeMinus5(t) ==
    /\ ~removed
    /\ playerTime' = SeekTo(t - MinusSeconds)
    /\ ytPlaying' = TRUE
    /\ ev' = Event("gotoTimeMinus5", t, FALSE, {"seekTo", "playVideo"}, {t - MinusSeconds})
    /\ UNCHANGED <<session, editVars, ytDuration, ready, durationTimer, duration,
                   playing, time, timers, timeUpdate, removed>>
    /\ UNCHANGED scoreVars

\* deleteStat that does not wait for the answer of window.confirm.
DeleteStat_NoConfirm(id, answer) ==
    /\ ~removed
    /\ destroying[id] < MaxDestroys
    /\ destroying' = [destroying EXCEPT ![id] = @ + 1]
    /\ ev' = Event("deleteStat", id, answer, {"confirm", "destroy"}, {})
    /\ UNCHANGED <<session, stat, nextCid, stats, nextId, saving, clockVars, removed>>
    /\ UNCHANGED scoreVars

\* deleteStat(stat, event), with window.confirm answering `answer`.
DeleteStat(id, answer) ==
    /\ ~removed
    /\ IF ~answer
       THEN /\ ev' = Event("deleteStat", id, FALSE, {"confirm"}, {})
            /\ UNCHANGED destroying
       ELSE /\ destroying[id] < MaxDestroys
            /\ destroying' = [destroying EXCEPT ![id] = @ + 1]
            /\ ev' = Event("deleteStat", id, TRUE, {"confirm", "destroy"}, {})
    /\ UNCHANGED <<session, stat, nextCid, stats, nextId, saving, clockVars, removed>>
    /\ UNCHANGED scoreVars

\* The destroy succeeds: the stat leaves the game's stats.
DestroySucceeded(id) ==
    /\ destroying[id] > 0
    /\ destroying' = [destroying EXCEPT ![id] = @ - 1]
    /\ stats' = LogRemove(stats, id)
    /\ ev' = Event("destroySuccess", id, FALSE, {}, {})
    /\ UNCHANGED <<session, stat, nextCid, nextId, saving, clockVars, removed>>
    /\ UNCHANGED scoreVars

\* The destroy fails: deleteStat passed no callback and kept no promise.
DestroyFailed(id) ==
    /\ destroying[id] > 0
    /\ destroying' = [destroying EXCEPT ![id] = @ - 1]
    /\ ev' = Event("destroyError", id, FALSE, {}, {})
    /\ UNCHANGED <<session, stat, nextCid, stats, nextId, saving, clockVars, removed>>
    /\ UNCHANGED scoreVars

(***************************************************************************)
(* The component's events: onPlayerReady, onPlayerStateChange and its      *)
(* timeUpdate timer, updatePosition, "{window} resize", "removed".         *)
(***************************************************************************)
\* updatePosition(time): the value of viewModel.attr("time") afterwards.
UpdatePosition(t) == IF duration # 0 THEN t ELSE time

\* getDuration that does not set its timer again.
GetDuration_Once(op) ==
    /\ IF ytDuration # 0
       THEN /\ duration' = ytDuration
            /\ durationTimer' = FALSE
       ELSE /\ duration' = duration
            /\ durationTimer' = FALSE
    /\ ev' = Event(op, 0, FALSE, {"getDuration"}, {})
    /\ UNCHANGED <<session, editVars, playerTime, ytPlaying, ytDuration, playing, time,
                   timers, timeUpdate, removed>>

\* getDuration(), called by onPlayerReady and by its own timer.
GetDuration(op) ==
    /\ IF ytDuration # 0
       THEN /\ duration' = ytDuration
            /\ durationTimer' = FALSE
       ELSE /\ duration' = duration
            /\ durationTimer' = TRUE
    /\ ev' = Event(op, 0, FALSE, {"getDuration"}, {})
    /\ UNCHANGED <<session, editVars, playerTime, ytPlaying, ytDuration, playing, time,
                   timers, timeUpdate, removed>>

\* onPlayerReady()
OnPlayerReady ==
    /\ ~removed
    /\ ~ready
    /\ ready' = TRUE
    /\ GetDuration("onPlayerReady")
    /\ UNCHANGED scoreVars

\* The timer set by setTimeout(getDuration, 100) fires.
GetDurationRetry ==
    /\ durationTimer
    /\ UNCHANGED ready
    /\ GetDuration("getDuration")
    /\ UNCHANGED scoreVars

\* timeUpdate that leaves the candidate's time alone.
TimeUpdateBody_NoRetime(op, arg, pending) ==
    LET currentTime == playerTime
        handle == FreshTimer(pending)
    IN
    /\ timers' = pending \cup {handle}
    /\ timeUpdate' = handle
    /\ time' = UpdatePosition(currentTime)
    /\ ev' = Event(op, arg, FALSE, {"getCurrentTime"}, {})
    /\ UNCHANGED <<session, editVars, playerTime, ytPlaying, ytDuration, ready,
                   durationTimer, duration, removed>>

\* timeUpdate(), the closure of onPlayerStateChange: `pending` are the timers
\* still pending when it runs.  stat.attr("time", currentTime) runs the
\* "{stat} time" handler when it changes the candidate's time.
TimeUpdateBody(op, arg, pending) ==
    LET currentTime == playerTime
        handle == FreshTimer(pending)
        seeks == IF HasStat /\ stat.time # currentTime
                 THEN StatTimeSeeks(currentTime, playerTime)
                 ELSE {}
    IN
    /\ stat' = IF HasStat THEN [stat EXCEPT !.time = currentTime] ELSE stat
    /\ playerTime' = AfterSeeks(seeks, playerTime)
    /\ timers' = pending \cup {handle}
    /\ timeUpdate' = handle
    /\ time' = UpdatePosition(currentTime)
    /\ ev' = Event(op, arg, FALSE,
                   {"getCurrentTime"} \cup (IF seeks = {} THEN {} ELSE {"seekTo"}), seeks)
    /\ UNCHANGED <<session, nextCid, stats, nextId, saving, destroying, ytPlaying,
                   ytDuration, ready, durationTimer, duration, removed>>

\* onPlayerStateChange(ev), with ev.data = data.
OnPlayerStateChange(data) ==
    /\ ~removed
    /\ IF data = PLAYING
       THEN /\ Cardinality(timers) < MaxTimers
            /\ playing' = TRUE
            /\ TimeUpdateBody("onPlayerStateChange", data, timers)
       ELSE /\ playing' = FALSE
            /\ timers' = timers \ {timeUpdate}
            /\ ev' = Event("onPlayerStateChange", data, FALSE, {}, {})
            /\ UNCHANGED <<session, editVars, playerTime, ytPlaying, ytDuration, ready,
                           durationTimer, duration, time, timeUpdate, removed>>
    /\ UNCHANGED scoreVars

\* A timer set by setTimeout(timeUpdate, 100) fires.
TimeUpdate(k) ==
    /\ k \in timers
    /\ UNCHANGED playing
    /\ TimeUpdateBody("timeUpdate", k, timers \ {k})
    /\ UNCHANGED scoreVars

\* "{window} resize"
WindowResize ==
    /\ ~removed
    /\ time' = UpdatePosition(playerTime)
    /\ ev' = Event("resize", 0, FALSE, {"getCurrentTime"}, {})
    /\ UNCHANGED <<session, editVars, playerTime, ytPlaying, ytDuration, ready,
                   durationTimer, duration, playing, timers, timeUpdate, removed>>
    /\ UNCHANGED scoreVars

\* "removed"
Removed ==
    /\ ~removed
    /\ removed' = TRUE
    /\ timers' = timers \ {timeUpdate}
    /\ ev' = Event("removed", 0, FALSE, {}, {})
    /\ UNCHANGED <<session, editVars, playerTime, ytPlaying, ytDuration, ready,
                   durationTimer, duration, playing, time, timeUpdate>>
    /\ UNCHANGED scoreVars

(***************************************************************************)
(* The environment: the video plays, the user works the player's own       *)
(* controls, the player learns the video's duration, the session changes.  *)
(***************************************************************************)
Outside(op) == Event(op, 0, FALSE, {}, {})

\* The video plays on by a second, and stops at its end.
PlayerAdvance ==
    /\ ~removed
    /\ ytPlaying
    /\ playerTime < VideoLength
    /\ playerTime' = playerTime + 1
    /\ ytPlaying' = (playerTime + 1 < VideoLength)
    /\ ev' = Outside("player")
    /\ UNCHANGED <<session, editVars, ytDuration, ready, durationTimer, duration,
                   playing, time, timers, timeUpdate, removed>>
    /\ UNCHANGED scoreVars

\* The user plays or pauses the video with the player's controls.
PlayerToggle ==
    /\ ~removed
    /\ ytPlaying' = ~ytPlaying
    /\ ev' = Outside("player")
    /\ UNCHANGED <<session, editVars, playerTime, ytDuration, ready, durationTimer,
                   duration, playing, time, timers, timeUpdate, removed>>
    /\ UNCHANGED scoreVars

\* The user scrubs the video with the player's controls.
PlayerScrub(t) ==
    /\ ~removed
    /\ t # playerTime
    /\ playerTime' = t
    /\ ev' = Outside("player")
    /\ UNCHANGED <<session, editVars, ytPlaying, ytDuration, ready, durationTimer,
                   duration, playing, time, timers, timeUpdate, removed>>
    /\ UNCHANGED scoreVars

\* The player learns the duration of the video.
PlayerLoaded ==
    /\ ~removed
    /\ ytDuration = 0
    /\ ytDuration' = VideoLength
    /\ ev' = Outside("player")
    /\ UNCHANGED <<session, editVars, playerTime, ytPlaying, ready, durationTimer,
                   duration, playing, time, timers, timeUpdate, removed>>
    /\ UNCHANGED scoreVars

\* The user logs in or out.
SetSession(s) ==
    /\ ~removed
    /\ s # session
    /\ session' = s
    /\ ev' = Outside("session")
    /\ UNCHANGED <<editVars, clockVars, removed>>
    /\ UNCHANGED scoreVars

(***************************************************************************)
(* The scores: the getters playerIdToHomeOrAwayMap, finalScore and         *)
(* currentScore.  An object is a function from its keys; reading a key it  *)
(* does not have gives undefined, and undefined used as a key is the key   *)
(* "undefined".                                                            *)
(***************************************************************************)
\* NaN, the value of undefined + 1: a value no sum of points takes.
NaN == -1

\* obj[key] = value
Put(obj, key, value) ==
    [k \in DOMAIN obj \cup {key} |-> IF k = key THEN value ELSE obj[k]]

\* The key that playerMap[playerId] gives to scores[...].
SideOf(map, playerId) == IF playerId \in DOMAIN map THEN map[playerId] ELSE "undefined"

\* The body of the for loop of playerIdToHomeOrAwayMap, from slot i on.
RECURSIVE MapSlots(_, _, _, _)
MapSlots(map, home, away, i) ==
    IF i > TeamSize
    THEN map
    ELSE MapSlots(Put(Put(map, home[i], "home"), away[i], "away"), home, away, i + 1)

\* The getter playerIdToHomeOrAwayMap, for the two teams' player ids.
PlayerIdToHomeOrAwayMap(home, away) == MapSlots(<<>>, home, away, 1)

\* scores[key] += n (and scores[key]++ for n = 1).
Increase(scores, key, n) ==
    IF key \in DOMAIN scores
    THEN [scores EXCEPT ![key] = IF @ = NaN THEN NaN ELSE @ + n]
    ELSE Put(scores, key, NaN)

\* stat.attr("type"): a stat that has no type gives undefined.
TypeOf(s) == IF "type" \in DOMAIN s THEN s.type ELSE "undefined"

\* The callback of game.attr("stats").each(...) in finalScore.
ScoreStat(scores, s, map) ==
    IF TypeOf(s) = "1P" THEN Increase(scores, SideOf(map, s.playerId), 1)
    ELSE IF TypeOf(s) = "2P" THEN Increase(scores, SideOf(map, s.playerId), 2)
    ELSE scores

\* stats.each(...) over the list from its i-th stat on; `counted` are the
\* stats the callback totals.
RECURSIVE EachStat(_, _, _, _, _)
EachStat(scores, list, i, map, counted) ==
    IF i > Len(list)
    THEN scores
    ELSE EachStat(IF list[i] \in counted THEN ScoreStat(scores, list[i], map) ELSE scores,
                  list, i + 1, map, counted)

\* The stats of a list.
Range(list) == {list[i] : i \in 1..Len(list)}

\* The getter finalScore, for the stats in the order of the list.
FinalScore(list, map) ==
    EachStat([home |-> 0, away |-> 0], list, 1, map, Range(list))

\* currentScore that leaves out the stats at the time of the video.
CurrentScore_Exclusive(list, map, t) ==
    EachStat([home |-> 0, away |-> 0], list, 1, map,
             {s \in Range(list) : t # -1 /\ s.time < t})

\* The getter currentScore: t is this.attr("time"), -1 while it is undefined
\* (and no time is <= undefined).
CurrentScore(list, map, t) ==
    EachStat([home |-> 0, away |-> 0], list, 1, map,
             {s \in Range(list) : t # -1 /\ s.time <= t})

\* The orders the stats of the game can have in the list game.attr("stats").
Orders(log) ==
    {list \in [1..Cardinality(log) -> log] :
        \A i, j \in 1..Cardinality(log) : i # j => list[i] # list[j]}

\* The getter playerIdToHomeOrAwayMap is read.
ReadPlayerIdToHomeOrAwayMap ==
    /\ ~removed
    /\ playerMap' = PlayerIdToHomeOrAwayMap(homeTeam, awayTeam)
    /\ ev' = Event("playerIdToHomeOrAwayMap", 0, FALSE, {}, {})
    /\ UNCHANGED <<session, editVars, clockVars, removed, homeTeam, awayTeam,
                   finalScore, currentScore>>

\* The getter finalScore is read.
ReadFinalScore ==
    /\ ~removed
    /\ \E list \in Orders(stats) :
          finalScore' = FinalScore(list, PlayerIdToHomeOrAwayMap(homeTeam, awayTeam))
    /\ ev' = Event("finalScore", 0, FALSE, {}, {})
    /\ UNCHANGED <<session, editVars, clockVars, removed, homeTeam, awayTeam,
                   playerMap, currentScore>>

\* The getter currentScore is read.
ReadCurrentScore ==
    /\ ~removed
    /\ \E list \in Orders(stats) :
          currentScore' =
              CurrentScore(list, PlayerIdToHomeOrAwayMap(homeTeam, awayTeam), time)
    /\ ev' = Event("currentScore", 0, FALSE, {}, {})
    /\ UNCHANGED <<session, editVars, clockVars, removed, homeTeam, awayTeam,
                   playerMap, finalScore>>

Next ==
    \/ \E p \in Players : ShowStatMenuFor(p)
    \/ CreateStat
    \/ \E i \in 1..MaxSaves : SaveSucceeded(i)
    \/ \E i \in 1..MaxSaves : SaveFailed(i)
    \/ RemoveStat
    \/ \E d \in Deltas : AddTime(d)
    \/ \E d \in Deltas : MinusTime(d)
    \/ \E s \in stats : GotoTimeMinus5(s.time)
    \/ \E s \in stats, answer \in BOOLEAN : DeleteStat(s.id, answer)
    \/ \E id \in StatIds : DestroySucceeded(id)
    \/ \E id \in StatIds : DestroyFailed(id)
    \/ OnPlayerReady
    \/ GetDurationRetry
    \/ \E data \in PlayerStates : OnPlayerStateChange(data)
    \/ \E k \in TimerIds : TimeUpdate(k)
    \/ WindowResize
    \/ Removed
    \/ PlayerAdvance
    \/ PlayerToggle
    \/ \E t \in 0..VideoLength : PlayerScrub(t)
    \/ PlayerLoaded
    \/ \E s \in Sessions : SetSession(s)
    \/ ReadPlayerIdToHomeOrAwayMap
    \/ ReadFinalScore
    \/ ReadCurrentScore

Spec == Init /\ [][Next]_vars

(***************************************************************************)
(* The parts of the component, each with the handlers and the environment  *)
(* that act on it; the rest of the component stays as Init leaves it.      *)
(***************************************************************************)
\* The session is an admin's.
InitAdmin == Init /\ session = "admin"

\* The editing session: opening, committing and cancelling a candidate.
NextEdit ==
    \/ \E p \in Players : ShowStatMenuFor(p)
    \/ CreateStat
    \/ \E i \in 1..MaxSaves : SaveSucceeded(i)
    \/ \E i \in 1..MaxSaves : SaveFailed(i)
    \/ RemoveStat
    \/ PlayerToggle
    \/ \E t \in 0..VideoLength : PlayerScrub(t)
    \/ \E s \in Sessions : SetSession(s)

SpecEdit == Init /\ [][NextEdit]_vars

\* The candidate and the polling timer that follows the player.
NextPoll ==
    \/ \E p \in Players : ShowStatMenuFor(p)
    \/ RemoveStat
    \/ \E data \in PlayerStates : OnPlayerStateChange(data)
    \/ \E k \in TimerIds : TimeUpdate(k)
    \/ PlayerAdvance
    \/ PlayerToggle
    \/ \E t \in 0..VideoLength : PlayerScrub(t)

SpecPoll == InitAdmin /\ [][NextPoll]_vars

\* The stat menu with its nudges, on a player that is left paused.
NextNudge ==
    \/ \E p \in Players : ShowStatMenuFor(p)
    \/ RemoveStat
    \/ \E d \in Deltas : AddTime(d)
    \/ \E d \in Deltas : MinusTime(d)
    \/ \E t \in 0..VideoLength : PlayerScrub(t)

SpecNudge == InitAdmin /\ [][NextNudge]_vars

\* The stat menu with its nudges while candidates are committed.
NextCommit ==
    \/ NextNudge
    \/ CreateStat
    \/ \E i \in 1..MaxSaves : SaveSucceeded(i)
    \/ \E i \in 1..MaxSaves : SaveFailed(i)

SpecCommit == InitAdmin /\ [][NextCommit]_vars

\* The committed stats and their deletion.
NextDelete ==
    \/ \E p \in Players : ShowStatMenuFor(p)
    \/ CreateStat
    \/ \E i \in 1..MaxSaves : SaveSucceeded(i)
    \/ \E i \in 1..MaxSaves : SaveFailed(i)
    \/ \E s \in stats : GotoTimeMinus5(s.time)
    \/ \E s \in stats, answer \in BOOLEAN : DeleteStat(s.id, answer)
    \/ \E id \in StatIds : DestroySucceeded(id)
    \/ \E id \in StatIds : DestroyFailed(id)
    \/ \E s \in Sessions : SetSession(s)

SpecDelete == Init /\ [][NextDelete]_vars

\* The duration of the video: onPlayerReady and the timer of getDuration, on a
\* player that learns the duration at some time or never.  A timer that
\* setTimeout has set fires, so the retry is weakly fair.
NextDuration ==
    \/ OnPlayerReady
    \/ GetDurationRetry
    \/ PlayerLoaded
    \/ PlayerToggle
    \/ \E t \in 0..VideoLength : PlayerScrub(t)
    \/ WindowResize
    \/ Removed

SpecDuration == Init /\ [][NextDuration]_vars /\ WF_vars(GetDurationRetry)

\* The seeks of the component on a player whose duration becomes known: the
\* nudges of the stat menu and gotoTimeMinus5.
NextSeek ==
    \/ \E p \in Players : ShowStatMenuFor(p)
    \/ \E d \in Deltas : AddTime(d)
    \/ \E d \in Deltas : MinusTime(d)
    \/ \E s \in stats : GotoTimeMinus5(s.time)
    \/ OnPlayerReady
    \/ GetDurationRetry
    \/ PlayerLoaded
    \/ \E t \in 0..VideoLength : PlayerScrub(t)

SpecSeek == InitAdmin /\ [][NextSeek]_vars

\* The two ways the candidate's time changes: the nudges of the stat menu and
\* the polling timer that follows the player.
NextSync ==
    \/ \E p \in Players : ShowStatMenuFor(p)
    \/ RemoveStat
    \/ \E d \in Deltas : AddTime(d)
    \/ \E d \in Deltas : MinusTime(d)
    \/ \E data \in PlayerStates : OnPlayerStateChange(data)
    \/ \E k \in TimerIds : TimeUpdate(k)
    \/ PlayerAdvance
    \/ PlayerToggle
    \/ \E t \in 0..VideoLength : PlayerScrub(t)

SpecSync == InitAdmin /\ [][NextSync]_vars

\* The clock of the component from the player's first events to the removal
\* of the component: the duration, the polling timer, the candidate it
\* follows.
NextClock ==
    \/ \E p \in Players : ShowStatMenuFor(p)
    \/ RemoveStat
    \/ OnPlayerReady
    \/ GetDurationRetry
    \/ \E data \in PlayerStates : OnPlayerStateChange(data)
    \/ \E k \in TimerIds : TimeUpdate(k)
    \/ Removed
    \/ PlayerAdvance
    \/ PlayerToggle
    \/ \E t \in 0..VideoLength : PlayerScrub(t)
    \/ PlayerLoaded

SpecClock == InitAdmin /\ [][NextClock]_vars

\* The editing session up to the removal of the component, and the saves that
\* are answered after it.
NextTeardown ==
    \/ \E p \in Players : ShowStatMenuFor(p)
    \/ CreateStat
    \/ \E i \in 1..MaxSaves : SaveSucceeded(i)
    \/ \E i \in 1..MaxSaves : SaveFailed(i)
    \/ RemoveStat
    \/ Removed
    \/ PlayerToggle
    \/ \E t \in 0..VideoLength : PlayerScrub(t)

SpecTeardown == InitAdmin /\ [][NextTeardown]_vars

(***************************************************************************)
(* The score getters as functions of the game: the game is loaded with any *)
(* stats and teams within the bounds, and the getters are read.            *)
(***************************************************************************)
\* The ids the players of the two teams are taken from.
MaxPlayerId == 8
\* The number of stats of the game.
MaxStats == 2
\* The times of the game's stats, and of the video when the score is read.
ScoreTimes == {10, 20, 30}
\* The types of the game's stats: one point, two points, and a type without points.
ScoreTypes == {"1P", "2P", "ORB"}

\* A component that was just inserted, whatever its game is.
InitComponent ==
    /\ session = "admin"
    /\ stat = NoStat
    /\ nextCid = 1
    /\ saving = <<>>
    /\ destroying = [i \in StatIds |-> 0]
    /\ playerTime = 0
    /\ ytPlaying = FALSE
    /\ ytDuration = 0
    /\ ready = FALSE
    /\ durationTimer = FALSE
    /\ duration = 0
    /\ playing = FALSE
    /\ timers = {}
    /\ timeUpdate = 0
    /\ removed = FALSE
    /\ playerMap = NotRead
    /\ finalScore = NotRead
    /\ currentScore = NotRead
    /\ ev = Event("inserted", 0, FALSE, {}, {})

\* The stats a game can have: any of the stats 1 .. MaxStats, each of a home
\* player, an away player or a player of neither team.
GameStats ==
    LET Attrs == [playerId : {1, TeamSize + 1, MaxPlayerId + 1},
                  type : ScoreTypes, time : ScoreTimes]
    IN UNION {{{[id |-> i, playerId |-> f[i].playerId, type |-> f[i].type,
                 time |-> f[i].time] : i \in ids} : f \in [ids -> Attrs]} :
              ids \in SUBSET (1..MaxStats)}

InitScore ==
    /\ InitComponent
    /\ homeTeam = [i \in 1..TeamSize |-> i]
    /\ awayTeam = [i \in 1..TeamSize |-> TeamSize + i]
    /\ stats \in GameStats
    /\ nextId = MaxStats + 1
    /\ time \in ScoreTimes

NextScore ==
    \/ ReadFinalScore
    \/ ReadCurrentScore

SpecScore == InitScore /\ [][NextScore]_vars

\* The teams a game can have: the home team's players are 1 .. 4, the away
\* team's players are any four different players.
InitRoster ==
    /\ InitComponent
    /\ homeTeam = [i \in 1..TeamSize |-> i]
    /\ awayTeam \in {t \in [1..TeamSize -> 1..MaxPlayerId] :
                        \A i, j \in 1..TeamSize : i # j => t[i] # t[j]}
    /\ stats = {[id |-> 1, playerId |-> 1, time |-> 1]}
    /\ nextId = 2
    /\ time = -1

NextRoster ==
    \/ ReadPlayerIdToHomeOrAwayMap

SpecRoster == InitRoster /\ [][NextRoster]_vars

(***************************************************************************)
(* Properties of the editing session.                                      *)
(***************************************************************************)
\* A save request for the candidate that is open now is in flight.
Committing == HasStat /\ \E i \in 1..Len(saving) : saving[i].cid = stat.cid

\* C1: showStatMenuFor called without a session, or with a session that is
\* not an admin's, changes nothing: no candidate is created, the player is
\* not paused (no call reaches it) and the stat attribute stays as it was.
C1_DeniedBeginEditIsNoOp ==
    [][(ev'.op = "showStatMenuFor" /\ ~IsAdmin)
         => /\ ev'.calls = {}
            /\ UNCHANGED <<session, editVars, clockVars, removed>>]_vars

\* C1 witness: a denied showStatMenuFor has run while the video plays and no
\* candidate is open.
C1_Witness ==
    /\ ev.op = "showStatMenuFor"
    /\ ~IsAdmin
    /\ ~HasStat
    /\ ytPlaying

\* C2 (as claimed): showStatMenuFor with an admin session pauses the player
\* and opens a candidate with the player's current time and the selected
\* player; and a later tick of the polling timer changes the candidate's time
\* only while the player's last reported state is playing.
C2_SeedAndNoTickWhilePaused ==
    [][/\ (ev'.op = "showStatMenuFor" /\ IsAdmin)
           => /\ "pauseVideo" \in ev'.calls
              /\ ~ytPlaying'
              /\ stat'.cid # 0 /\ stat'.cid # stat.cid
              /\ stat'.time = playerTime
              /\ stat'.playerId = ev'.arg
       /\ (ev'.op = "timeUpdate" /\ HasStat /\ stat'.time # stat.time) => playing
      ]_vars

\* C3: addTime(d) sets the candidate's time to exactly the old time plus d,
\* minusTime(d) to exactly the old time minus d, whatever the sign of the
\* result and wherever the video ends.
C3_NudgeIsExact ==
    [][/\ ev'.op = "addTime" => stat' = [stat EXCEPT !.time = stat.time + ev'.arg]
       /\ ev'.op = "minusTime" => stat' = [stat EXCEPT !.time = stat.time - ev'.arg]
      ]_vars

\* C3 witness: a candidate seeded at the end of the video, then minusTime(10),
\* then addTime(2): its time is the seed minus 8, below 0.
C3_Witness ==
    /\ ev.op = "addTime"
    /\ ev.arg = SmallNudge
    /\ stat.time = VideoLength - LargeNudge + SmallNudge
    /\ stat.time < 0

\* C4: createStat sends the candidate to the Stat model's save and leaves it
\* open; when the save answers, with success or with an error, the stat
\* attribute is removed and no new save is sent.
C4_CommitEndsIdle ==
    [][/\ ev'.op = "createStat"
           => /\ saving' = Append(saving, stat)
              /\ stat' = stat
       /\ ev'.op \in {"saveSuccess", "saveError"}
           => /\ stat' = NoStat
              /\ Len(saving') = Len(saving) - 1
      ]_vars

\* C4 witness: a save has failed and the session is idle again.
C4_Witness ==
    /\ ev.op = "saveError"
    /\ "console.log" \in ev.calls
    /\ ~HasStat
    /\ saving = <<>>

\* C5: the game's stats change at no step of the editing session but the
\* success of a save: not when createStat sends the save, not while it is in
\* flight, not when it fails.
C5_LogChangesOnlyOnSuccess ==
    [][/\ ev'.op \in {"createStat", "saveError"} => stats' = stats
       /\ stats' # stats => ev'.op = "saveSuccess"
       /\ ev'.op = "saveSuccess" => Cardinality(stats') = Cardinality(stats) + 1
      ]_vars

\* C5 witness: a save failed and the game's stats are those it was loaded with.
C5_Witness ==
    /\ ev.op = "saveError"
    /\ nextId = 2
    /\ Cardinality(stats) = 1

\* C6 (as claimed): while a save of the open candidate is in flight, the
\* candidate's time does not change.
C6_NoEditWhileCommitting ==
    [][(Committing /\ stat'.cid = stat.cid) => stat'.time = stat.time]_vars

\* C7 (as claimed): showStatMenuFor called while a candidate is open leaves
\* that candidate in place.
C7_BeginEditOnlyFromIdle ==
    [][(ev'.op = "showStatMenuFor" /\ HasStat) => stat' = stat]_vars

\* C8: removeStat removes the stat attribute, calls neither the Stat model
\* nor the player, and leaves the game's stats and the requests in flight
\* as they were.
C8_CancelDiscardsOnly ==
    [][ev'.op = "removeStat"
         => /\ stat' = NoStat
            /\ ev'.calls = {}
            /\ UNCHANGED <<stats, nextId, saving, destroying>>]_vars

\* C8 witness: removeStat has discarded an open candidate that was never sent.
C8_Witness ==
    /\ ev.op = "removeStat"
    /\ ev.arg # 0
    /\ ~HasStat
    /\ saving = <<>>
    /\ nextId = 2

(***************************************************************************)
(* Properties of deleteStat.                                               *)
(***************************************************************************)
\* C9 (as claimed): deleteStat called without an admin session sends no
\* destroy request.
C9_DeleteChecksCapability ==
    [][(ev'.op = "deleteStat" /\ ~IsAdmin)
         => /\ "destroy" \notin ev'.calls
            /\ destroying' = destroying]_vars

\* C10: a destroy request is sent only by a deleteStat whose window.confirm
\* answered yes; a deleteStat whose window.confirm answered no changes
\* neither the requests in flight, nor the game's stats, nor the candidate.
C10_DeleteOnlyAfterConfirm ==
    [][/\ (\E id \in StatIds : destroying'[id] > destroying[id])
           => (ev'.op = "deleteStat" /\ ev'.confirm)
       /\ (ev'.op = "deleteStat" /\ ~ev'.confirm)
           => /\ "destroy" \notin ev'.calls
              /\ UNCHANGED <<session, editVars, clockVars, removed>>
      ]_vars

\* C10 witness: the user declined the deletion of a committed stat and no
\* destroy request is in flight.
C10_Witness ==
    /\ ev.op = "deleteStat"
    /\ ~ev.confirm
    /\ \E s \in stats : s.id = ev.arg
    /\ \A id \in StatIds : destroying[id] = 0

\* C11 (as claimed): when a destroy request fails, the stat stays in the
\* game's stats, the candidate is untouched, and the failure is reported (to
\* the console, as createStat does for a failed save).
C11_DeleteFailureIsSurfaced ==
    [][ev'.op = "destroyError"
         => /\ stats' = stats
            /\ stat' = stat
            /\ "console.log" \in ev'.calls]_vars

(***************************************************************************)
(* Properties of the scores.                                               *)
(***************************************************************************)
\* The sides of a score.
Sides == {"home", "away"}

\* The points the stats of `log` give to a side: one for each of its "1P"
\* stats and two for each of its "2P" stats.
PointsOf(log, side) ==
    LET map == PlayerIdToHomeOrAwayMap(homeTeam, awayTeam)
        Of(ty) == {s \in log : s.type = ty /\ s.playerId \in DOMAIN map
                                /\ map[s.playerId] = side}
    IN Cardinality(Of("1P")) + 2 * Cardinality(Of("2P"))

\* C12 (as claimed): a score read from a game that has stats of players of
\* neither team is still a pair of a home and an away total, both
\* non-negative integers, with no other side.
C12_UnmappedStatIsSkipped ==
    /\ ev.op = "finalScore"
         => /\ DOMAIN finalScore = Sides
            /\ \A k \in Sides : finalScore[k] \in Nat
    /\ ev.op = "currentScore"
         => /\ DOMAIN currentScore = Sides
            /\ \A k \in Sides : currentScore[k] \in Nat

\* C13: the current score gives each side the points of exactly its stats
\* with a time at or before the time of the video, and the final score the
\* points of all its stats, whatever the order of the stats in the list.
C13_ScoreIsSumUpToCutoff ==
    /\ ev.op = "currentScore"
         => \A side \in Sides :
               currentScore[side] = PointsOf({s \in stats : s.time <= time}, side)
    /\ ev.op = "finalScore"
         => \A side \in Sides : finalScore[side] = PointsOf(stats, side)

\* C13 witness: both scores were read from a game with a home "1P" stat at
\* the time of the video and an away "2P" stat after it: 1 - 0 now, 1 - 2 in
\* the end.
C13_Witness ==
    /\ ev.op = "currentScore"
    /\ \E s \in stats : s.time = time /\ s.type = "1P" /\ s.playerId = homeTeam[1]
    /\ \E s \in stats : s.time > time /\ s.type = "2P" /\ s.playerId = awayTeam[1]
    /\ currentScore = [home |-> 1, away |-> 0]
    /\ finalScore = [home |-> 1, away |-> 2]

\* C14 (as claimed): when a player is on both teams no map is returned (the
\* getter fails), and when no player is, every player of a team maps to that
\* team's side.
C14_SharedPlayerIsRosterConflict ==
    ev.op = "playerIdToHomeOrAwayMap"
      => IF \E i, j \in 1..TeamSize : homeTeam[i] = awayTeam[j]
         THEN playerMap = NotRead
         ELSE \A i \in 1..TeamSize : /\ playerMap[homeTeam[i]] = "home"
                                     /\ playerMap[awayTeam[i]] = "away"

(***************************************************************************)
(* Properties of the clock.                                                *)
(***************************************************************************)
\* C15: once the player is ready, getDuration keeps its timer set while the
\* duration is not recorded; the duration recorded is never zero or negative,
\* it is the one the player reports; the timer is not set once a duration is
\* recorded; and when the player is ready and reports a duration, that
\* duration is eventually recorded and the timer is no longer set.
C15_DurationResolves ==
    /\ [](duration # 0 => duration > 0 /\ duration = ytDuration)
    /\ []((ready /\ duration = 0) => durationTimer)
    /\ [](duration # 0 => ~durationTimer)
    /\ (ready /\ ytDuration > 0) ~> (duration = ytDuration /\ ~durationTimer)

\* C15 witness: the timer of getDuration has recorded the duration that the
\* player did not know yet when it became ready.
C15_Witness ==
    /\ ready
    /\ ev.op = "getDuration"
    /\ duration = VideoLength
    /\ ~durationTimer

\* C16 (as claimed): while the duration is known, every target a handler
\* passes to seekTo is within 0 .. duration.
C16_SeeksAreClamped ==
    duration # 0 => \A t \in ev.seeks : 0 <= t /\ t <= duration

\* The candidate stays the same object and its time changes in this step.
StatTimeChanges == HasStat /\ stat'.cid = stat.cid /\ stat'.time # stat.time

\* C17 (as claimed): whenever the time of the open candidate changes, the
\* player is sought to the candidate's time if that time and the player's
\* time differ by more than 2 seconds, and is not sought if they differ by 2
\* seconds or less.
C17_ReseekBeyondTolerance ==
    [][StatTimeChanges
         => ev'.seeks = IF Abs(stat'.time - playerTime) > SeekTolerance
                        THEN {stat'.time}
                        ELSE {}]_vars

\* C17 (amended): whenever the time of the open candidate changes, the player
\* is sought to the candidate's time if that time is not negative and differs
\* from the player's time by more than 2 seconds, and is not sought
\* otherwise; a tick of the polling timer, which sets the candidate's time to
\* the player's own time, never seeks.
C17_ReseekBeyondToleranceIfNotNegative ==
    [][StatTimeChanges
         => /\ ev'.seeks = IF stat'.time >= 0
                              /\ Abs(stat'.time - playerTime) > SeekTolerance
                           THEN {stat'.time}
                           ELSE {}
            /\ ev'.op \in {"timeUpdate", "onPlayerStateChange"} => ev'.seeks = {}]_vars

\* C17 witness: a nudge has moved the candidate more than 2 seconds away from
\* the player's time and the player was sought to the candidate's time.
C17_Witness ==
    /\ ev.op \in {"addTime", "minusTime"}
    /\ HasStat
    /\ ev.seeks = {stat.time}

\* This step is a run of timeUpdate: a tick of the polling timer, or the call
\* that onPlayerStateChange makes when the player starts to play.
Tick ==
    \/ ev'.op = "timeUpdate"
    \/ ev'.op = "onPlayerStateChange" /\ ev'.arg = PLAYING

\* C18: a run of timeUpdate while a candidate is open sets the candidate's
\* time to the player's current time and leaves the rest of the candidate as
\* it is; a run while no candidate is open changes, besides the timer and the
\* playing flag, only the time of the view model, which becomes the player's
\* current time once the duration is known.
C18_TickRetimesCandidate ==
    [][Tick
         => /\ HasStat => /\ stat' = [stat EXCEPT !.time = playerTime]
                          /\ stat'.time = playerTime'
            /\ ~HasStat => /\ time' = IF duration # 0 THEN playerTime ELSE time
                           /\ UNCHANGED <<session, editVars, playerTime, ytPlaying,
                                          ytDuration, ready, durationTimer, duration,
                                          removed, scoreVars>>]_vars

\* C18 witness: while the player plays at a time past the start, a tick of
\* the polling timer has set the time of the open candidate and the time of
\* the view model to the player's time.
C18_Witness ==
    /\ ev.op = "timeUpdate"
    /\ HasStat
    /\ playing
    /\ ytPlaying
    /\ playerTime > 0
    /\ stat.time = playerTime
    /\ time = playerTime

\* C19 (as claimed): once the component is removed no tick of the polling
\* timer runs.
C19_NoTickAfterRemoved ==
    [][removed => ev'.op # "timeUpdate"]_vars

\* C20 (as claimed): a save that is answered after the component was removed
\* runs no callback that changes the view model: the stat attribute stays as
\* it was at the removal.
C20_NoCallbackAfterRemoved ==
    [][(removed /\ ev'.op \in {"saveSuccess", "saveError"}) => stat' = stat]_vars

\* C21 (as claimed): at most one timer of timeUpdate is pending at any time,
\* and while the playing flag is false (since onPlayerStateChange handled a
\* state that is not PLAYING) no tick of the polling timer runs.
C21_OnePollingTimer ==
    /\ [](Cardinality(timers) <= 1)
    /\ [][~playing => ev'.op # "timeUpdate"]_vars

\* C22 (as claimed): a save callback that runs while another candidate than
\* the one it was sent with is open leaves that candidate in place.
C22_CallbackDiscardsOwnCandidate ==
    [][(ev'.op \in {"saveSuccess", "saveError"} /\ HasStat /\ stat.cid # ev'.arg)
         => stat' = stat]_vars

====
